---------------------------- MODULE Spec2Model ----------------------------
(***************************************************************************)
(* A model of src/reposter.ts: the Reposter bot.  The configuration object *)
(* and its file, the command handlers, the historical walk (repost,        *)
(* sendMessages, fetchMessages, sendMessage, send) and live forwarding     *)
(* (repostLive), with one atomic step per stretch of code between two      *)
(* awaited network calls.                                                  *)
(*                                                                         *)
(* Strings whose characters matter (command tokens, replacement rules,     *)
(* message bodies) are sequences of one-character strings.                 *)
(***************************************************************************)
EXTENDS Integers, Sequences, FiniteSets, TLC

(***************************************************************************)
(* Bounds of the model.                                                    *)
(***************************************************************************)
MaxProcs == 1         \* handlers in flight at once (walks, live forwards)
MaxHist == 3          \* messages of a source channel in the small walks
MaxFail == 1          \* network calls that are rejected in one behaviour
MaxBody == 3          \* characters of a message body under replaceAll
MaxApply == 2         \* applications of replaceAll to one body
MaxCmds == 3          \* events (commands, reactions, messages) in one behaviour
MaxToggles == 2       \* toggle commands in one behaviour of SpecToggle
MaxRules == 2         \* rules of a replacement table

(***************************************************************************)
(* Program constants.                                                      *)
(***************************************************************************)
FetchLimit == 100         \* fetch({ limit: 100, after })
InlineLimit == 8000000    \* attachment.filesize > 8000000
WalkSize == 250           \* the 250-message source of the pagination walk

(***************************************************************************)
(* Sequences.                                                              *)
(***************************************************************************)
Range(s) == {s[i] : i \in 1..Len(s)}

Reverse(s) == [i \in 1..Len(s) |-> s[Len(s) + 1 - i]]

Last(s) == s[Len(s)]

\* pat occurs in str at position i
MatchAt(str, pat, i) ==
    /\ i + Len(pat) - 1 <= Len(str)
    /\ \A k \in 1..Len(pat) : str[i + k - 1] = pat[k]

\* str.match(/pat/) for a literal pattern: pat occurs somewhere in str
Contains(str, pat) == \E i \in 1..(Len(str) + 1) : MatchAt(str, pat, i)

(***************************************************************************)
(* setBoolean's two word lists: the alternatives of its regular            *)
(* expressions, in the order of the source.                                *)
(***************************************************************************)
TruthyWords ==
    { <<"1">>, <<"t","r","u","e">>, <<"y","e","s">>,
      <<"c","o","n","f","i","r","m">>, <<"a","g","r","e","e">>,
      <<"e","n","a","b","l","e">>, <<"o","n">>,
      <<"p","o","s","i","t","i","v","e">>, <<"a","c","c","e","p","t">>,
      <<"y","e">>, <<"y","e","p">>, <<"y","a">>, <<"y","a","h">>,
      <<"y","e","a","h">>, <<"s","u","r","e">>, <<"o","k">>,
      <<"o","k","a","y">> }

FalsyWords ==
    { <<"0">>, <<"f","a","l","s","e">>, <<"n","o">>, <<"d","e","n","y">>,
      <<"d","e","n","i","e","d">>, <<"d","i","s","a","g","r","e","e">>,
      <<"d","i","s","a","b","l","e">>, <<"o","f","f">>,
      <<"n","e","g","a","t","i","v","e">>, <<"-","1">>, <<"n","a","h">>,
      <<"n","a">>, <<"n","o","p","e">>, <<"s","t","o","p">>,
      <<"e","n","d">>, <<"c","e","a","s","e">> }

\* value.match(/1|true|yes|.../): some alternative occurs in value
MatchesAny(value, words) == \E w \in words : Contains(value, w)

\* A token that neither list recognises, and the missing token (args[2]
\* undefined, or "" after a doubled space): both are falsy or unmatched.
NoToken == << >>
OtherToken == <<"m","u","t","e">>

\* The value setBoolean stores, given the truthiness of the stored value
\* (enabled; undefined is falsy) and the token.
BooleanValue(enabled, value) ==
    IF value # NoToken /\ MatchesAny(value, TruthyWords) THEN TRUE
    ELSE IF value # NoToken /\ MatchesAny(value, FalsyWords) THEN FALSE
    ELSE ~enabled

(***************************************************************************)
(* replaceAll: a replacement table is the sequence of the object's         *)
(* [find, replace] entries in for-in order (insertion order; the model     *)
(* uses no integer-like keys).  Each rule is applied to the output of the  *)
(* one before it, as str.replace(new RegExp(find, "g"), replace) with a    *)
(* literal pattern: a left-to-right scan of non-overlapping matches.       *)
(***************************************************************************)
RECURSIVE ReplaceFrom(_, _, _, _)
ReplaceFrom(str, find, replace, i) ==
    IF i > Len(str) THEN << >>
    ELSE IF MatchAt(str, find, i)
         THEN replace \o ReplaceFrom(str, find, replace, i + Len(find))
         ELSE <<str[i]>> \o ReplaceFrom(str, find, replace, i + 1)

\* str.replace(/find/g, replace), find not empty
ReplaceGlobal(str, find, replace) == ReplaceFrom(str, find, replace, 1)

\* only the first rule of the table is applied
MutReplaceRules(table, str) ==
    IF table = << >> THEN str
    ELSE ReplaceGlobal(str, Head(table).find, Head(table).replace)

\* the for-in loop of replaceAll: the rules one after the other, in the
\* order of the table, each on the output of the one before
RECURSIVE ReplaceRules(_, _)
ReplaceRules(table, str) ==
    IF table = << >> THEN str
    ELSE ReplaceRules(Tail(table),
                      ReplaceGlobal(str, Head(table).find, Head(table).replace))

(***************************************************************************)
(* sendMessage's choice for an attachment.                                 *)
(***************************************************************************)
MutAttachmentPayload(filesize) ==
    IF filesize >= InlineLimit THEN "url" ELSE "file"

AttachmentPayload(filesize) ==
    IF filesize > InlineLimit THEN "url" ELSE "file"


(***************************************************************************)
(* The world: channels, their guilds, users.  Identifiers are the keys of  *)
(* the configuration maps.                                                 *)
(***************************************************************************)
Channels == {"c1", "c2"}

\* (channel.guild || channel).id
GuildOf(c) == IF c = "c1" THEN "g1" ELSE "g2"

Guilds == {GuildOf(c) : c \in Channels}

Users == {"A", "B"}

Keys == {"tags", "nicknames", "pins"}

\* channel.type, and permissionsFor(client.user).has("SEND_MESSAGES")
\* a voice channel of the second guild, and a third text channel, both
\* reached only through the guild (guild.channels.cache) or by name
Voice == "v1"

Third == "c3"

AllChannels == Channels \cup {Voice, Third}

ChannelType(c) == IF c = Voice THEN "voice" ELSE "text"

\* guild.channels.cache.values(), in the order of the cache
GuildChannels(g) == IF g = "g1" THEN <<"c1">> ELSE <<"c2", Voice, Third>>

\* channel.name: two channels of the second guild bear the same name
ChannelName(c) ==
    IF c = "c1" THEN "one" ELSE IF c = "c2" THEN "two" ELSE "dup"

\* message.mentions.channels.first() of a command whose argument is id
Mentioned(id) ==
    IF id = "<#c1>" THEN "c1" ELSE IF id = "<#c2>" THEN "c2" ELSE ""

CanSend(c) == TRUE

VARIABLES
    config,      \* this.config: replacements, nicknames, prefixes, active,
                 \* tags, pins, live; each a map from the keys present
    disk,        \* the parsed content of config.json
    listeners,   \* armed awaitReactions of sendReplacements: [guild, find]
    history,     \* per channel, its messages, oldest first; id = position
    proc,        \* the asynchronous handlers: where each one is suspended
    hookName,    \* per channel, the displayed name of the bot's webhook
    log,         \* what has been delivered to channels, in order
    fails,       \* network calls rejected so far
    event,       \* the last command handled
    cmds,        \* events handled so far: commands, reactions, messages
    outs         \* a body and the outputs of replaceAll applied to it

vars == <<config, disk, listeners, history, proc, hookName, log, fails,
          event, cmds, outs>>

(***************************************************************************)
(* Maps: a JavaScript object is a function on the keys it holds.           *)
(***************************************************************************)
Put(map, k, v) == [x \in DOMAIN map \cup {k} |-> IF x = k THEN v ELSE map[x]]

Del(map, k) == [x \in DOMAIN map \ {k} |-> map[x]]

\* map[k] is truthy
Truthy(map, k) == k \in DOMAIN map /\ map[k]

EmptyMap == << >>

EmptyConfig ==
    [replacements |-> EmptyMap, nicknames |-> EmptyMap, prefixes |-> EmptyMap,
     active |-> EmptyMap, tags |-> EmptyMap, pins |-> EmptyMap,
     live |-> EmptyMap]

NoEvent == [type |-> "none", chan |-> "", key |-> "", value |-> << >>,
            prev |-> FALSE]

\* inactive(to, from): with a source given, only the source is looked at
inactive(to, from) ==
    IF from # "" THEN ~Truthy(config.active, from)
    ELSE ~Truthy(config.active, to)

\* replaceAll(channel, str)
replaceAll(channel, str) ==
    IF GuildOf(channel) \in DOMAIN config.replacements
    THEN ReplaceRules(config.replacements[GuildOf(channel)], str)
    ELSE str

(***************************************************************************)
(* Synchronous command handlers.  updateConfig rewrites the whole file.    *)
(***************************************************************************)
Handled == cmds' = cmds + 1

Replies ==
    /\ Handled
    /\ UNCHANGED <<listeners, history, proc, hookName, log, fails, outs>>

setBoolean(channel, key, value) ==
    LET guild == GuildOf(channel)
        enabled == Truthy(config[key], guild)
        cfg == [config EXCEPT ![key] = Put(@, guild, BooleanValue(enabled, value))]
    IN /\ config' = cfg
       /\ disk' = cfg
       /\ event' = [type |-> "setBoolean", chan |-> channel, key |-> key,
                    value |-> value, prev |-> enabled]
       /\ Replies

setPrefix(channel, prefix) ==
    LET guild == GuildOf(channel)
        cfg == [config EXCEPT !.prefixes = Put(@, guild, prefix)]
    IN /\ IF prefix # << >>
          THEN config' = cfg /\ disk' = cfg
          ELSE UNCHANGED <<config, disk>>
       /\ event' = [NoEvent EXCEPT !.type = "setPrefix", !.chan = channel,
                                   !.value = prefix]
       /\ Replies

\* this.config.replacements[guild][find] = replace: an existing key keeps
\* its place in the object, a new one goes last
Upsert(table, find, replace) ==
    IF \E i \in 1..Len(table) : table[i].find = find
    THEN [i \in 1..Len(table) |->
             IF table[i].find = find
             THEN [find |-> find, replace |-> replace] ELSE table[i]]
    ELSE Append(table, [find |-> find, replace |-> replace])

\* delete replace[find]
Remove(table, find) == SelectSeq(table, LAMBDA e : e.find # find)

setReplacement(channel, find, replace) ==
    LET guild == GuildOf(channel)
        table == IF guild \in DOMAIN config.replacements
                 THEN config.replacements[guild] ELSE << >>
        made == [config EXCEPT !.replacements = Put(@, guild, table)]
        cfg == [config EXCEPT
                   !.replacements = Put(@, guild, Upsert(table, find, replace))]
    IN /\ IF find # << >> /\ replace # << >>
          THEN config' = cfg /\ disk' = cfg
          ELSE config' = made /\ UNCHANGED disk
       /\ event' = [NoEvent EXCEPT !.type = "setReplacement",
                                   !.chan = channel, !.value = find]
       /\ Replies

\* sendReplacements: one listing per rule, each with its own single-use
\* reaction listener
sendReplacements(channel) ==
    LET guild == GuildOf(channel) IN
    /\ listeners' =
          IF guild \in DOMAIN config.replacements
          THEN listeners \cup
               {[guild |-> guild, find |-> e.find] :
                    e \in Range(config.replacements[guild])}
          ELSE listeners
    /\ event' = [NoEvent EXCEPT !.type = "sendReplacements", !.chan = channel]
    /\ Handled
    /\ UNCHANGED <<config, disk, history, proc, hookName, log, fails, outs>>

\* The listener's callback, lines 249-258: delete replace[find], delete the
\* listing, then this.updateConfig() inside a plain function, whose this is
\* undefined: a TypeError ends the callback before the file is written.
reactDelete(l) ==
    /\ l \in listeners
    /\ listeners' = listeners \ {l}
    /\ config' = [config EXCEPT
                     !.replacements[l.guild] = Remove(@, l.find)]
    /\ event' = [NoEvent EXCEPT !.type = "reactDelete", !.value = l.find]
    /\ Handled
    /\ UNCHANGED <<disk, history, proc, hookName, log, fails, outs>>

\* stop without its second delete
MutStop(channel) ==
    LET cfg == [config EXCEPT !.active = Del(@, channel)]
    IN /\ config' = cfg
       /\ disk' = cfg
       /\ event' = [NoEvent EXCEPT !.type = "stop", !.chan = channel]
       /\ Replies

\* stop(channel), lines 700-706
stop(channel) ==
    LET cfg == [config EXCEPT !.active = Del(@, channel),
                              !.live = Del(@, channel)]
        Suspended(r) == /\ r.pc \notin {"idle", "done"}
                        /\ \/ r.to # "" /\ channel \in {r.to, r.from}
                           \/ r.gid # "" /\ channel = r.chan
                        /\ channel \in DOMAIN config.active
    IN /\ config' = cfg
       /\ disk' = cfg
       /\ event' = [NoEvent EXCEPT !.type = "stop", !.chan = channel]
       /\ proc' = [p \in DOMAIN proc |->
                     IF Suspended(proc[p])
                     THEN [proc[p] EXCEPT !.halted = channel] ELSE proc[p]]
       /\ Handled
       /\ UNCHANGED <<listeners, history, hookName, log, fails, outs>>


(***************************************************************************)
(* Messages of a channel.  A message is                                    *)
(*   [author, type, content, attachments, embeds, reactions, pinned]:      *)
(* type "Default" or a system type, content a string, attachments their    *)
(* byte sizes, embeds their types, reactions the number of reactions the   *)
(* bot can replay, pinned whether the channel pins it.                     *)
(***************************************************************************)
Msg(c, m) == history[c][m]

\* messages.fetch({ limit, after }): the limit oldest messages after the
\* cursor, newest first
FetchAfter(c, after, limit) ==
    LET hi == IF after + limit < Len(history[c]) THEN after + limit
              ELSE Len(history[c])
    IN [i \in 1..(hi - after) |-> hi + 1 - i]

RECURSIVE PinnedUpTo(_, _)
PinnedUpTo(c, n) ==
    IF n = 0 THEN << >>
    ELSE IF Msg(c, n).pinned THEN <<n>> \o PinnedUpTo(c, n - 1)
         ELSE PinnedUpTo(c, n - 1)

\* messages.fetchPinned(): the pinned messages, newest first
FetchPinned(c) == PinnedUpTo(c, Len(history[c]))

\* niceName(to, from, user): display name, tag or username
niceName(to, from, user) ==
    IF Truthy(config.nicknames, GuildOf(from)) THEN <<user, "~">>
    ELSE IF Truthy(config.tags, GuildOf(from)) THEN <<user, "#">>
    ELSE <<user>>

\* What sendMessage passes to send, in order: the body, each attachment,
\* each rich embed (lines 386-413)
Items(c, m) ==
    LET msg == Msg(c, m) IN
    (IF msg.content # << >>
     THEN << [kind |-> "body", text |-> msg.content, size |-> 0] >>
     ELSE << >>)
    \o [i \in 1..Len(msg.attachments) |->
           [kind |-> AttachmentPayload(msg.attachments[i]), text |-> << >>,
            size |-> msg.attachments[i]]]
    \o [i \in 1..Len(SelectSeq(msg.embeds, LAMBDA t : t = "rich")) |->
           [kind |-> "embed", text |-> << >>, size |-> 0]]

(***************************************************************************)
(* Handlers in flight.  A handler is suspended at an awaited network call  *)
(* (pc); the code between two awaits runs without interruption.            *)
(***************************************************************************)
Idle ==
    [pc |-> "idle", kind |-> "", chan |-> "", id |-> "", webhook |-> FALSE,
     direction |-> FALSE, live |-> FALSE, to |-> "", from |-> "",
     hook |-> FALSE, phase |-> "", queue |-> << >>, last |-> 0,
     author |-> "", cursor |-> 0, next |-> 0, cur |-> 0, items |-> << >>,
     text |-> << >>, reacts |-> 0,
     \* what the walk has done, kept for the properties: the batch sizes
     \* its paged fetches returned, the paged fetches issued, whether a
     \* history fetch was rejected, whether the destination was inactive
     \* when "Repost Complete!" was issued, the authors of the message in
     \* hand (seen) and of the one processed before it (prev), whether an
     \* identity line was issued for the message in hand
     sizes |-> << >>, fetches |-> 0, failed |-> FALSE, lost |-> FALSE,
     seen |-> "", prev |-> "", lined |-> FALSE,
     \* the channel (of the walk's two) whose active flag stop removed while
     \* the walk was suspended
     halted |-> "",
     \* a guild repost: the guild being expanded (line 485) and the channels
     \* of guild.channels.cache.values() the loop of line 492 has not reached
     gid |-> "", rest |-> << >>]

\* the handler has returned
\* (inside a guild repost, the call made by line 497 has returned and
\* the loop of line 492 goes on)
Done(r) ==
    [Idle EXCEPT !.pc = IF r.gid # "" THEN "guildNext" ELSE "done",
                 !.gid = r.gid, !.rest = r.rest, !.halted = r.halted,
                 !.kind = r.kind, !.chan = r.chan,
                 !.id = r.id, !.webhook = r.webhook,
                 !.direction = r.direction, !.live = r.live, !.to = r.to,
                 !.from = r.from, !.hook = r.hook, !.sizes = r.sizes,
                 !.fetches = r.fetches, !.failed = r.failed,
                 !.lost = r.lost]

\* fetchMessages(message, channel, webhook, author) up to its fetch,
\* lines 440-442
EnterFetch(r, message, author) ==
    IF inactive(r.to, r.from) THEN Done(r)
    ELSE [r EXCEPT !.pc = "fetch", !.phase = "history", !.cursor = message,
                   !.author = author, !.queue = << >>, !.last = 0,
                   !.cur = 0, !.items = << >>, !.text = << >>,
                   !.fetches = @ + 1]

\* repost after the pins, lines 593-596
BeforeMessages(r) ==
    IF inactive(r.to, r.from) THEN Done(r)
    ELSE [r EXCEPT !.pc = "messagesHeader", !.phase = "", !.queue = << >>,
                   !.last = 0, !.cur = 0, !.items = << >>, !.text = << >>]

\* the next fetch is issued with the cursor of the one before
MutAfterBatch(r) ==
    IF r.phase = "pins" THEN BeforeMessages(r)
    ELSE EnterFetch(r, r.cursor, Msg(r.from, r.next).author)

\* after sendMessages has returned: repost line 593, or fetchMessages
\* lines 449-450 with last = messages.last()
AfterBatch(r) ==
    IF r.phase = "pins" THEN BeforeMessages(r)
    ELSE EnterFetch(r, r.next, Msg(r.from, r.next).author)

\* the text of the identity line of message m: replaceAll(channel,
\* await niceName(channel, message.channel, message.author))
IdentityText(r, m) ==
    replaceAll(r.to, niceName(r.to, r.from, Msg(r.from, m).author))

RECURSIVE LoopNext(_), EnterSendMessage(_, _, _), NextItem(_), AfterMessage(_)

\* sendMessages' loop, lines 426-429
LoopNext(r) ==
    IF r.queue = << >> \/ inactive(r.to, "") THEN AfterBatch(r)
    ELSE EnterSendMessage([r EXCEPT !.queue = Tail(@)], Head(r.queue),
                          IF r.last # 0 THEN Msg(r.from, r.last).author
                          ELSE r.author)

\* sendMessage(message, channel, webhook, author) up to its first await,
\* lines 342-385
EnterSendMessage(r, m, author) ==
    LET s == [r EXCEPT !.cur = m, !.items = Items(r.from, m),
                       !.seen = Msg(r.from, m).author, !.prev = r.seen,
                       !.lined = FALSE]
    IN
    IF inactive(r.to, r.from) THEN AfterMessage([r EXCEPT !.cur = m])
    ELSE IF Msg(r.from, m).type # "Default" \/ Msg(r.from, m).author # author
         THEN [s EXCEPT !.pc = "identity", !.text = IdentityText(r, m),
                        !.lined = TRUE]
         ELSE NextItem(s)

\* the sends of lines 386-413, each through send (line 100)
NextItem(r) ==
    IF r.items = << >> THEN AfterMessage(r)
    ELSE IF inactive(r.to, "") THEN NextItem([r EXCEPT !.items = Tail(@)])
         ELSE [r EXCEPT !.pc = "item",
                        !.text = replaceAll(r.to, Head(r.items).text)]

\* sendMessage has returned to repostLive (line 618), to repost (line 603)
\* or to sendMessages' loop (line 429)
AfterMessage(r) ==
    IF r.phase = "live" THEN Done(r)
    ELSE IF r.phase = "first"
         THEN EnterFetch(r, r.cur, Msg(r.from, r.cur).author)
         ELSE LoopNext([r EXCEPT !.last = r.cur, !.items = << >>,
                                 !.text = << >>])

\* sendMessages(messages, channel, webhook, author), lines 422-425: the
\* batch arrives newest first and is replayed reversed
MutSendMessages(r, messages, author) ==
    LoopNext([r EXCEPT !.queue = messages, !.last = 0, !.author = author])

SendMessages(r, messages, author) ==
    LoopNext([r EXCEPT !.queue = Reverse(messages), !.last = 0,
                       !.author = author])

\* "Repost Complete!" is issued, lines 452 and 605
ToComplete(r) == [r EXCEPT !.pc = "complete", !.lost = inactive(r.to, "")]

\* repost lines 586-593, once the webhook is settled
AfterHook(r) ==
    IF Truthy(config.pins, GuildOf(r.to))
    THEN [r EXCEPT !.pc = "pinsHeader"]
    ELSE BeforeMessages(r)

(***************************************************************************)
(* Deliveries.                                                             *)
(***************************************************************************)
Entry(p, r, to, kind, text, size) ==
    [p |-> p, to |-> to, kind |-> kind, phase |-> r.phase, from |-> r.from,
     msg |-> r.cur, text |-> text, size |-> size,
     under |-> IF r.hook THEN hookName[r.to] ELSE << >>]

\* a network call settles: fulfilled, or rejected within the budget
Settles(ok) == ok \/ fails < MaxFail

Outcome(ok, entry) ==
    /\ Settles(ok)
    /\ log' = IF ok THEN Append(log, entry) ELSE log
    /\ fails' = IF ok THEN fails ELSE fails + 1

Plain(ok) ==
    /\ Settles(ok)
    /\ fails' = IF ok THEN fails ELSE fails + 1
    /\ UNCHANGED log

Step(p, r) == proc' = [proc EXCEPT ![p] = r]

Quiet ==
    UNCHANGED <<config, disk, listeners, history, hookName, event, cmds, outs>>

(***************************************************************************)
(* repost, lines 475-609.                                                  *)
(***************************************************************************)
\* the lowest free handler slot
FreeSlot(p) ==
    /\ proc[p].pc = "idle"
    /\ \A q \in DOMAIN proc : q < p => proc[q].pc # "idle"

\* run's default branch, lines 745-763: repost is called and suspends at
\* client.channels.fetch(id)
RepostCmd(p, chan, id, webhook, direction, live) ==
    /\ FreeSlot(p)
    /\ Step(p, [Idle EXCEPT !.pc = "resolve", !.kind = "walk", !.chan = chan,
                            !.id = id, !.webhook = webhook,
                            !.direction = direction, !.live = live])
    /\ event' = [NoEvent EXCEPT !.type = "repost", !.chan = chan]
    /\ Handled
    /\ UNCHANGED <<config, disk, listeners, history, hookName, log, fails,
                   outs>>

\* the guard clauses without the one of line 550
MutRejected(r) ==
    \/ ChannelType(r.id) \notin {"text", "group", "dm"}
    \/ r.webhook /\ ChannelType(IF r.direction THEN r.chan ELSE r.id) = "dm"
    \/ ChannelType(r.id) = "text" /\ ~r.direction /\ ~CanSend(r.id)

\* lines 550-573: the guard clauses, then both channels are marked active
Rejected(r) ==
    \/ r.id = r.chan
    \/ ChannelType(r.id) \notin {"text", "group", "dm"}
    \/ r.webhook /\ ChannelType(IF r.direction THEN r.chan ELSE r.id) = "dm"
    \/ ChannelType(r.id) = "text" /\ ~r.direction /\ ~CanSend(r.id)

\* repost from line 550 on, with r.id the channel in hand; cfg and file are
\* the configuration and the file as the caller leaves them
Guarded(p, r, cfg, file) ==
    LET to == IF r.direction THEN r.chan ELSE r.id
        from == IF r.direction THEN r.id ELSE r.chan
        marked == [cfg EXCEPT !.active = Put(Put(@, to, TRUE), from, TRUE)]
    IN IF Rejected(r)
       THEN /\ Step(p, [r EXCEPT !.pc = "rejected"])
            /\ config' = cfg
            /\ disk' = file
       ELSE /\ Step(p, [r EXCEPT !.pc = "announce", !.to = to, !.from = from])
            /\ config' = marked
            /\ disk' = marked

\* line 482: client.channels.fetch(id) has settled, with a channel or null
Resolved(p) ==
    LET r == proc[p]
    IN /\ r.pc = "resolve"
       /\ IF r.id \in AllChannels
          THEN Guarded(p, r, config, disk)
          ELSE /\ Step(p, [r EXCEPT !.pc = "resolveGuild"])
               /\ UNCHANGED <<config, disk>>
       /\ UNCHANGED <<listeners, history, hookName, log, fails, event, cmds, outs>>

\* lines 492-497: one turn of the loop over the guild's channels.  The
\* channel is marked active and the file written before repost(match) runs
\* its guard clauses; the call is entered without an await in between
GuildLoop(p, r) ==
    IF r.rest = << >> \/ inactive(r.chan, "")
    THEN /\ Step(p, [Done(r) EXCEPT !.pc = "done"])
         /\ UNCHANGED <<config, disk>>
    ELSE LET match == Head(r.rest)
             cfg == [config EXCEPT !.active = Put(@, match, TRUE)]
         IN Guarded(p, [Idle EXCEPT !.pc = "resolve", !.kind = r.kind,
                                    !.chan = r.chan, !.id = match,
                                    !.webhook = r.webhook,
                                    !.direction = r.direction,
                                    !.live = r.live, !.gid = r.gid,
                                    !.rest = Tail(r.rest),
                                    !.halted = r.halted],
                    cfg, cfg)

\* the candidates of the name scan, lines 502-507, in the order of the cache
Matches(id) ==
    SelectSeq(<<"c1", "c2", Voice, Third>>, LAMBDA c : ChannelName(c) = id)

\* lines 484-549: client.guilds.fetch(id) has settled.  A guild: the
\* invoking channel is marked active (no file write) and the guild repost
\* is announced.  No guild: the mentioned channel, else the channels of
\* that name
GuildFetched(p) ==
    LET r == proc[p]
        cfg == [config EXCEPT !.active = Put(@, r.chan, TRUE)]
    IN /\ r.pc = "resolveGuild"
       /\ IF r.id \in Guilds
          THEN /\ Step(p, [r EXCEPT !.pc = "guildAnnounce", !.gid = r.id,
                                    !.rest = GuildChannels(r.id)])
               /\ config' = cfg
               /\ UNCHANGED disk
          ELSE IF Mentioned(r.id) # ""
          THEN Guarded(p, [r EXCEPT !.id = Mentioned(r.id)], config, disk)
          ELSE IF Len(Matches(r.id)) = 1
          THEN Guarded(p, [r EXCEPT !.id = Matches(r.id)[1]], config, disk)
          ELSE /\ Step(p, [r EXCEPT !.pc = IF Matches(r.id) = << >>
                                           THEN "rejected" ELSE "found"])
               /\ UNCHANGED <<config, disk>>
       /\ UNCHANGED <<listeners, history, hookName, log, fails, event, cmds, outs>>

\* lines 489-492: the guild announcement is out, the loop starts
GuildAnnounced(p, ok) ==
    LET r == proc[p]
    IN /\ r.pc = "guildAnnounce"
       /\ Outcome(ok, Entry(p, r, r.chan, "guildAnnounce", << >>, 0))
       /\ GuildLoop(p, r)
       /\ UNCHANGED <<listeners, history, hookName, event, cmds, outs>>

\* line 497 has returned: the next turn of the loop
GuildNext(p) ==
    LET r == proc[p]
    IN /\ r.pc = "guildNext"
       /\ GuildLoop(p, r)
       /\ UNCHANGED <<listeners, history, hookName, log, fails, event, cmds, outs>>

\* lines 512-544: "Found n channels!" and one card per candidate, each with
\* a reaction awaited
ListingSent(p, ok) ==
    LET r == proc[p]
    IN /\ r.pc = "found"
       /\ Outcome(ok, Entry(p, r, r.chan, "found", << >>, 0))
       /\ Step(p, [r EXCEPT !.pc = "listed"])
       /\ Quiet

\* lines 541-543: the requester reacts to a card.  The callback is a
\* function expression, its this is undefined: this.repost throws and no
\* repost is made
Picked(p) ==
    LET r == proc[p]
    IN /\ r.pc = "listed"
       /\ Step(p, Done(r))
       /\ event' = [NoEvent EXCEPT !.type = "react", !.chan = r.chan]
       /\ Handled
       /\ UNCHANGED <<config, disk, listeners, history, hookName, log, fails,
                      outs>>

\* lines 573-583: the announcement is out; a live repost registers its rule
Announced(p, ok) ==
    LET r == proc[p]
        cfg == [config EXCEPT
                   !.live = Put(@, r.from,
                                [channel |-> r.to, hook |-> r.webhook])]
    IN /\ r.pc = "announce"
       /\ Outcome(ok, Entry(p, r, r.chan, "announce", << >>, 0))
       /\ IF r.live
          THEN /\ config' = cfg
               /\ disk' = cfg
               /\ Step(p, Done(r))
          ELSE /\ UNCHANGED <<config, disk>>
               /\ Step(p, [r EXCEPT !.pc = "info"])
       /\ UNCHANGED <<listeners, history, hookName, event, cmds, outs>>

\* lines 583-585: sendInfo is over
InfoSent(p, ok) ==
    LET r == proc[p] IN
    /\ r.pc = "info"
    /\ Outcome(ok, Entry(p, r, r.to, "info", << >>, 0))
    /\ Step(p, IF inactive(r.to, r.from) THEN Done(r)
               ELSE IF r.webhook THEN [r EXCEPT !.pc = "fetchWebhook"]
               ELSE AfterHook(r))
    /\ Quiet

\* fetchWebhook, lines 456-473: the bot's webhook of the channel, created
\* as "Reposter" when there is none
WebhookFetched(p, ok) ==
    LET r == proc[p]
        h == [r EXCEPT !.hook = TRUE]
    IN /\ r.pc = "fetchWebhook"
       /\ Plain(ok)
       /\ hookName' = IF ok /\ hookName[r.to] = << >>
                      THEN [hookName EXCEPT ![r.to] = <<"R">>]
                      ELSE hookName
       /\ Step(p, IF ~ok THEN [r EXCEPT !.pc = "hookNotice"]
                  ELSE IF r.kind = "live" THEN EnterSendMessage(h, r.cur, "")
                  ELSE AfterHook(h))
       /\ UNCHANGED <<config, disk, listeners, history, event, cmds,
                       outs>>

\* line 587-588
PinsHeaderSent(p, ok) ==
    LET r == proc[p] IN
    /\ r.pc = "pinsHeader"
    /\ Outcome(ok, Entry(p, r, r.to, "pinsHeader", << >>, 0))
    /\ Step(p, [r EXCEPT !.pc = "fetchPins"])
    /\ Quiet

\* lines 588-591
PinsFetched(p, ok) ==
    LET r == proc[p] IN
    /\ r.pc = "fetchPins"
    /\ Plain(ok)
    /\ Step(p, IF ok
               THEN SendMessages([r EXCEPT !.phase = "pins"],
                                 FetchPinned(r.from), "")
               ELSE [r EXCEPT !.pc = "pinsNotice", !.phase = "pins"])
    /\ Quiet

\* lines 594-596
MessagesHeaderSent(p, ok) ==
    LET r == proc[p] IN
    /\ r.pc = "messagesHeader"
    /\ Outcome(ok, Entry(p, r, r.to, "messagesHeader", << >>, 0))
    /\ Step(p, [r EXCEPT !.pc = "fetchFirst"])
    /\ Quiet

\* lines 595-606: fetch({ limit: 1, after: "0" }) is back
FirstFetched(p, ok) ==
    LET r == proc[p]
        messages == FetchAfter(r.from, 0, 1)
    IN /\ r.pc = "fetchFirst"
       /\ Plain(ok)
       /\ Step(p, IF ~ok THEN [r EXCEPT !.pc = "firstNotice",
                                        !.failed = TRUE]
                  ELSE IF messages # << >>
                  THEN EnterSendMessage([r EXCEPT !.phase = "first"],
                                        messages[1], "")
                  ELSE ToComplete(r))
       /\ Quiet

(***************************************************************************)
(* fetchMessages, lines 434-454: fetch({ limit: 100, after }) is back.     *)
(***************************************************************************)
Fetched(p, ok) ==
    LET r == proc[p]
        messages == FetchAfter(r.from, r.cursor, FetchLimit)
        s == [r EXCEPT !.sizes = Append(@, Len(messages))]
    IN /\ r.pc = "fetch"
       /\ Plain(ok)
       /\ Step(p, IF ~ok THEN [r EXCEPT !.pc = "fetchNotice",
                                        !.failed = TRUE]
                  ELSE IF inactive(r.to, r.from) THEN Done(s)
                  ELSE IF messages # << >>
                  THEN SendMessages([s EXCEPT !.next = Last(messages)],
                                    messages, r.author)
                  ELSE ToComplete(s))
       /\ Quiet

\* the notice sent when a read was rejected, and what the code does next
NoticeSent(p, ok) ==
    LET r == proc[p] IN
    /\ r.pc \in {"rejected", "hookNotice", "pinsNotice", "firstNotice",
                 "fetchNotice"}
    /\ Outcome(ok, Entry(p, r, IF r.pc = "rejected" THEN r.chan ELSE r.to,
                         r.pc, << >>, 0))
    /\ Step(p, CASE r.pc = "rejected" -> Done(r)
                 [] r.pc = "hookNotice" ->
                        IF r.kind = "live" THEN EnterSendMessage(r, r.cur, "")
                        ELSE AfterHook(r)
                 [] r.pc = "pinsNotice" -> SendMessages(r, << >>, "")
                 [] r.pc = "firstNotice" -> ToComplete(r)
                 [] OTHER ->
                        IF inactive(r.to, r.from) THEN Done(r)
                        ELSE ToComplete(r))
    /\ Quiet

\* lines 452 and 605
CompleteSent(p, ok) ==
    LET r == proc[p] IN
    /\ r.pc = "complete"
    /\ Outcome(ok, Entry(p, r, r.to, "complete", << >>, 0))
    /\ Step(p, Done(r))
    /\ Quiet

(***************************************************************************)
(* sendMessage and send, lines 95-111 and 336-414.                         *)
(***************************************************************************)
\* lines 343-385: the system line, the author line, or the webhook's
\* rename has settled
IdentityDone(p, ok) ==
    LET r == proc[p]
        kind == IF Msg(r.from, r.cur).type # "Default" THEN "system"
                ELSE IF r.hook THEN "rename" ELSE "author"
    IN /\ r.pc = "identity"
       /\ Outcome(ok, Entry(p, r, r.to, kind, r.text, 0))
       /\ hookName' = IF ok /\ kind = "rename"
                      THEN [hookName EXCEPT ![r.to] = r.text]
                      ELSE hookName
       /\ Step(p, NextItem(r))
       /\ UNCHANGED <<config, disk, listeners, history, event, cmds,
                       outs>>

\* a rejected send ends the handler
MutItemDone(p, ok) ==
    LET r == proc[p]
        item == Head(r.items)
        rest == [r EXCEPT !.items = Tail(@), !.text = << >>]
    IN /\ r.pc = "item"
       /\ Outcome(ok, Entry(p, r, r.to, item.kind, r.text, item.size))
       /\ Step(p, IF ~ok THEN Done(r)
                  ELSE IF Msg(r.from, r.cur).reactions > 0
                          /\ ~inactive(r.to, "")
                  THEN [r EXCEPT !.pc = "react",
                                 !.reacts = Msg(r.from, r.cur).reactions]
                  ELSE NextItem(rest))
       /\ Quiet

\* send, lines 101-104: channel.send has settled
ItemDone(p, ok) ==
    LET r == proc[p]
        item == Head(r.items)
        rest == [r EXCEPT !.items = Tail(@), !.text = << >>]
    IN /\ r.pc = "item"
       /\ Outcome(ok, Entry(p, r, r.to, item.kind, r.text, item.size))
       /\ Step(p, IF ok /\ Msg(r.from, r.cur).reactions > 0
                     /\ ~inactive(r.to, "")
                  THEN [r EXCEPT !.pc = "react",
                                 !.reacts = Msg(r.from, r.cur).reactions]
                  ELSE NextItem(rest))
       /\ Quiet

\* send, lines 103-108: sent.react has settled
ReactDone(p, ok) ==
    LET r == proc[p]
        rest == [r EXCEPT !.items = Tail(@), !.text = << >>, !.reacts = 0]
    IN /\ r.pc = "react"
       /\ Outcome(ok, Entry(p, r, r.to, "react", << >>, 0))
       /\ Step(p, IF r.reacts > 1 /\ ~inactive(r.to, "")
                  THEN [r EXCEPT !.reacts = @ - 1]
                  ELSE NextItem(rest))
       /\ Quiet

(***************************************************************************)
(* repostLive, lines 611-620, called by run for every message.             *)
(***************************************************************************)
\* config.live[message.channel.id] || config.live[message.guild.id]
LiveRule(c) ==
    IF c \in DOMAIN config.live THEN config.live[c]
    ELSE IF GuildOf(c) \in DOMAIN config.live THEN config.live[GuildOf(c)]
    ELSE [channel |-> "", hook |-> FALSE]

\* A user posts message msg in channel c.  With a live rule repostLive
\* suspends at client.channels.fetch(live.channel).
NewMessage(p, c, msg) ==
    LET live == LiveRule(c) IN
    /\ Len(history[c]) < MaxHist
    /\ history' = [history EXCEPT ![c] = Append(@, msg)]
    /\ IF live.channel # ""
       THEN /\ FreeSlot(p)
            /\ Step(p, [Idle EXCEPT !.pc = "liveResolve", !.kind = "live",
                                    !.chan = c, !.from = c,
                                    !.to = live.channel,
                                    !.webhook = live.hook, !.phase = "live",
                                    !.cur = Len(history[c]) + 1])
       ELSE /\ p = 1
            /\ UNCHANGED proc
    /\ event' = [NoEvent EXCEPT !.type = "message", !.chan = c]
    /\ Handled
    /\ UNCHANGED <<config, disk, listeners, hookName, log, fails, outs>>

\* lines 616-618
LiveResolved(p) ==
    LET r == proc[p] IN
    /\ r.pc = "liveResolve"
    /\ Step(p, IF r.webhook THEN [r EXCEPT !.pc = "fetchWebhook"]
               ELSE EnterSendMessage(r, r.cur, ""))
    /\ UNCHANGED <<config, disk, listeners, history, hookName, log, fails,
                   event, cmds, outs>>


(***************************************************************************)
(* Applying replaceAll to a body, and again to its output.                 *)
(***************************************************************************)
ApplyReplace ==
    /\ outs # << >>
    /\ Len(outs) <= MaxApply
    /\ outs' = Append(outs, replaceAll("c1", Last(outs)))
    /\ UNCHANGED <<config, disk, listeners, history, proc, hookName, log,
                   fails, event, cmds>>

(***************************************************************************)
(* Initial states.  The constructor leaves the empty configuration,        *)
(* written to the file (loadConfig); the other initial states are          *)
(* configurations that commands produce, and channels with a history.      *)
(***************************************************************************)
NoHistory == [c \in Channels |-> << >>]

InitWith(cfg, hist, procs, o) ==
    /\ config = cfg
    /\ disk = cfg
    /\ listeners = {}
    /\ history = hist
    /\ proc = [p \in procs |-> Idle]
    /\ hookName = [c \in Channels |-> << >>]
    /\ log = << >>
    /\ fails = 0
    /\ event = NoEvent
    /\ cmds = 0
    /\ outs = o

Init == InitWith(EmptyConfig, NoHistory, 1..MaxProcs, << >>)

(***************************************************************************)
(* The command handlers: every command that changes the configuration.     *)
(***************************************************************************)
Tokens == TruthyWords \cup FalsyWords \cup {NoToken, OtherToken}

Command ==
    \/ \E c \in Channels, key \in Keys,
          value \in {NoToken, <<"o","n">>, <<"o","f","f">>} :
          setBoolean(c, key, value)
    \/ \E c \in Channels, prefix \in {<< >>, <<"!">>} : setPrefix(c, prefix)
    \/ \E c \in Channels, find \in {<< >>, <<"a">>, <<"b">>},
          replace \in {<< >>, <<"b">>} : setReplacement(c, find, replace)
    \/ \E c \in Channels : sendReplacements(c)
    \/ \E l \in listeners : reactDelete(l)
    \/ \E c \in Channels : stop(c)
    \/ \E p \in DOMAIN proc, chan \in Channels, id \in Channels,
          webhook \in BOOLEAN, direction \in BOOLEAN :
          RepostCmd(p, chan, id, webhook, direction, TRUE)

Next ==
    \/ cmds < MaxCmds /\ Command
    \/ \E p \in DOMAIN proc : Resolved(p)
    \/ \E p \in DOMAIN proc, ok \in BOOLEAN : Announced(p, ok)
    \/ \E p \in DOMAIN proc, ok \in BOOLEAN : NoticeSent(p, ok)

Spec == Init /\ [][Next]_vars

(***************************************************************************)
(* The toggle commands with every token of the two word lists.             *)
(***************************************************************************)
NextToggle ==
    cmds < MaxToggles /\ \E c \in Channels, key \in Keys, value \in Tokens :
        setBoolean(c, key, value)

SpecToggle == Init /\ [][NextToggle]_vars


(***************************************************************************)
(* Historical walks from c1 to c2.                                         *)
(***************************************************************************)
Message(author, type, content, attachments, pinned) ==
    [author |-> author, type |-> type, content |-> content,
     attachments |-> attachments, embeds |-> << >>, reactions |-> 0,
     pinned |-> pinned]

\* the histories of at most n messages drawn from msgs
Histories(n, msgs) == UNION {[1..k -> msgs] : k \in 0..n}

SourceOnly(h) == [c \in Channels |-> IF c = "c1" THEN h ELSE << >>]

\* text messages and join notices of two authors
PlainMsgs ==
    {Message(a, "Default", <<"a">>, << >>, FALSE) : a \in Users}
    \cup {Message(a, "UserJoin", << >>, << >>, FALSE) : a \in Users}

\* "repost from c1" typed in c2, or "repost to c2" typed in c1
WalkCmd(webhook) ==
    \E p \in DOMAIN proc :
        \/ RepostCmd(p, "c2", "c1", webhook, TRUE, FALSE)
        \/ RepostCmd(p, "c1", "c2", webhook, FALSE, FALSE)

WalkSteps ==
    \/ \E p \in DOMAIN proc : Resolved(p)
    \/ \E p \in DOMAIN proc, ok \in BOOLEAN : Announced(p, ok)
    \/ \E p \in DOMAIN proc, ok \in BOOLEAN : InfoSent(p, ok)
    \/ \E p \in DOMAIN proc, ok \in BOOLEAN : MessagesHeaderSent(p, ok)
    \/ \E p \in DOMAIN proc, ok \in BOOLEAN : FirstFetched(p, ok)
    \/ \E p \in DOMAIN proc, ok \in BOOLEAN : Fetched(p, ok)
    \/ \E p \in DOMAIN proc, ok \in BOOLEAN : NoticeSent(p, ok)
    \/ \E p \in DOMAIN proc, ok \in BOOLEAN : CompleteSent(p, ok)
    \/ \E p \in DOMAIN proc, ok \in BOOLEAN : IdentityDone(p, ok)
    \/ \E p \in DOMAIN proc, ok \in BOOLEAN : ItemDone(p, ok)

InitWalk ==
    \E h \in Histories(MaxHist, PlainMsgs) :
        InitWith(EmptyConfig, SourceOnly(h), 1..MaxProcs, << >>)

WalkEvent ==
    \/ WalkCmd(FALSE)
    \/ \E c \in Channels : stop(c)
    \/ \E p \in DOMAIN proc, msg \in PlainMsgs : NewMessage(p, "c1", msg)

NextWalk ==
    \/ cmds < MaxCmds /\ WalkEvent
    \/ WalkSteps

SpecWalk == InitWalk /\ [][NextWalk]_vars


(***************************************************************************)
(* Properties of the walk.                                                 *)
(***************************************************************************)
\* the deliveries of handler p with a kind of kinds
Sent(p, kinds) == {i \in 1..Len(log) : log[i].p = p /\ log[i].kind \in kinds}

\* the bodies of message m of channel c delivered by handler p
Bodies(p, c, m) ==
    {i \in Sent(p, {"body"}) : log[i].from = c /\ log[i].msg = m}

\* the deliveries of the given kinds, by any handler
Delivered(kinds) == {i \in 1..Len(log) : log[i].kind \in kinds}

Walks == {p \in DOMAIN proc : proc[p].kind = "walk" /\ proc[p].to # ""}

\* nothing but the repost command happened and no call was rejected
Undisturbed == fails = 0 /\ cmds = 1

\* C2: once stop has removed the destination's active flag, the walk issues
\* no further paged history fetch, in whichever channel stop was typed.
C2_NoFetchAfterStop ==
    [][\A p \in Walks :
          (p \in DOMAIN proc' /\ ~Truthy(config.active, proc[p].to))
              => proc'[p].fetches = proc[p].fetches]_vars

\* C3: an identity line is issued for a default-type message exactly when
\* the message processed just before it in the walk had another author (or
\* there was none); so N messages of alternating authors give N identity
\* lines and N bodies, and N messages of one author give 1 identity line
\* and N bodies.
C3_IdentityLines ==
    \A p \in Walks :
        LET r == proc[p]
            h == history[r.from]
            N == Len(h)
        IN /\ (r.pc \in {"identity", "item"}
                 /\ Msg(r.from, r.cur).type = "Default")
              => (r.lined <=> Msg(r.from, r.cur).author # r.prev)
           /\ (r.pc = "done" /\ Undisturbed
                 /\ \A i \in 1..N : h[i].type = "Default")
              => /\ Cardinality(Sent(p, {"body"})) = N
                 /\ (\A i \in 1..(N - 1) : h[i].author # h[i + 1].author)
                    => Cardinality(Sent(p, {"author"})) = N
                 /\ (N >= 1 /\ \A i \in 1..N : h[i].author = h[1].author)
                    => Cardinality(Sent(p, {"author"})) = 1

\* C9: "Repost Complete!" is delivered at most once per walk, not after a
\* rejected history fetch, not when the destination was inactive as it was
\* issued, and only when every message of the source has been replayed.
C9_CompleteOnlyWhenExhausted ==
    \A p \in Walks :
        /\ Cardinality(Sent(p, {"complete"})) <= 1
        /\ \A i \in Sent(p, {"complete"}) :
              /\ ~proc[p].failed
              /\ ~proc[p].lost
              /\ Undisturbed =>
                    \A m \in 1..Len(history[proc[p].from]) :
                        Msg(proc[p].from, m).content # << >>
                            => \E j \in Bodies(p, proc[p].from, m) : j < i


(***************************************************************************)
(* The walk over a source of exactly WalkSize messages, every call         *)
(* fulfilled and nothing else happening.                                   *)
(***************************************************************************)
InitWalk250 ==
    InitWith(EmptyConfig,
             SourceOnly([i \in 1..WalkSize |->
                            Message("A", "Default", <<"a">>, << >>, FALSE)]),
             {1}, << >>)

NextWalk250 ==
    \/ cmds < 1 /\ \E p \in DOMAIN proc :
                      RepostCmd(p, "c2", "c1", FALSE, TRUE, FALSE)
    \/ \E p \in DOMAIN proc : Resolved(p)
    \/ \E p \in DOMAIN proc : Announced(p, TRUE)
    \/ \E p \in DOMAIN proc : InfoSent(p, TRUE)
    \/ \E p \in DOMAIN proc : MessagesHeaderSent(p, TRUE)
    \/ \E p \in DOMAIN proc : FirstFetched(p, TRUE)
    \/ \E p \in DOMAIN proc : Fetched(p, TRUE)
    \/ \E p \in DOMAIN proc : IdentityDone(p, TRUE)
    \/ \E p \in DOMAIN proc : ItemDone(p, TRUE)
    \/ \E p \in DOMAIN proc : CompleteSent(p, TRUE)

SpecWalk250 == InitWalk250 /\ [][NextWalk250]_vars

\* C1: over a source of 250 messages the walk's paged fetches return 100,
\* 100 and 50 messages and then none, and every source message is
\* delivered exactly once: never twice, and once when the walk has ended.
C1_Walk250 ==
    \A p \in Walks :
        LET r == proc[p] IN
        /\ \A m \in 1..WalkSize : Cardinality(Bodies(p, r.from, m)) <= 1
        /\ r.pc = "done" =>
              /\ r.sizes = <<FetchLimit, FetchLimit,
                             WalkSize - 2 * FetchLimit, 0>>
              /\ \A m \in 1..WalkSize : Cardinality(Bodies(p, r.from, m)) = 1


(***************************************************************************)
(* Properties of the toggle commands and of persistence.                   *)
(***************************************************************************)
\* C5: after a toggle command the stored flag is true for every token of
\* the truthy word list, false for every token of the falsy word list
\* (disagree and -1 among them), and the negation of the value stored
\* before when no token was given.
C5_ToggleTokens ==
    event.type = "setBoolean" =>
        LET stored == Truthy(config[event.key], GuildOf(event.chan)) IN
        /\ event.value \in TruthyWords => stored
        /\ event.value \in FalsyWords => ~stored
        /\ event.value = NoToken => (stored = ~event.prev)

\* C8: when no handler is suspended, the file holds the configuration that
\* is in memory.
C8_FileEqualsMemory ==
    (\A p \in DOMAIN proc : proc[p].pc \in {"idle", "done"}) => disk = config

(***************************************************************************)
(* Walks over messages that carry attachments around the inline limit.     *)
(***************************************************************************)
AttachSizes == {InlineLimit - 1, InlineLimit, InlineLimit + 1}

AttachMsgs ==
    {Message("A", "Default", content, <<s>>, FALSE) :
        content \in {<< >>, <<"a">>}, s \in AttachSizes}

InitAttach ==
    \E h \in Histories(MaxHist, AttachMsgs) :
        InitWith(EmptyConfig, SourceOnly(h), 1..MaxProcs, << >>)

NextAttach ==
    \/ cmds < 1 /\ WalkCmd(FALSE)
    \/ WalkSteps

SpecAttach == InitAttach /\ [][NextAttach]_vars

\* C10: every attachment delivered is one of the source message's
\* attachments, delivered as a file when its size is at most 8,000,000
\* bytes and as a bare URL when its size is 8,000,001 bytes or more.
C10_InlineLimit ==
    \A i \in Delivered({"file", "url"}) :
        /\ log[i].size \in Range(Msg(log[i].from, log[i].msg).attachments)
        /\ log[i].size <= 8000000 => log[i].kind = "file"
        /\ log[i].size >= 8000001 => log[i].kind = "url"

\* an attachment of exactly 8,000,000 bytes went out as a file and one of
\* 8,000,001 bytes as a bare URL
C10_Witness ==
    /\ \E i \in Delivered({"file"}) : log[i].size = 8000000
    /\ \E i \in Delivered({"url"}) : log[i].size = 8000001


(***************************************************************************)
(* Walks into a destination whose guild has pin reposting switched on.     *)
(***************************************************************************)
PinMsgs ==
    {Message(a, "Default", <<"a">>, << >>, pinned) :
        a \in Users, pinned \in BOOLEAN}

\* the configuration "repost pins on" typed in c2 leaves behind
PinsOn == [EmptyConfig EXCEPT !.pins = Put(@, GuildOf("c2"), TRUE)]

InitPins ==
    \E h \in Histories(MaxHist, PinMsgs) :
        InitWith(PinsOn, SourceOnly(h), 1..MaxProcs, << >>)

NextPins ==
    \/ cmds < 1 /\ WalkCmd(FALSE)
    \/ WalkSteps
    \/ \E p \in DOMAIN proc, ok \in BOOLEAN : PinsHeaderSent(p, ok)
    \/ \E p \in DOMAIN proc, ok \in BOOLEAN : PinsFetched(p, ok)

SpecPins == InitPins /\ [][NextPins]_vars

\* the bodies handler p delivered while replaying the pins
PinBodies(p) == {i \in Sent(p, {"body"}) : log[i].phase = "pins"}

\* anything handler p delivered while replaying the ordinary history
HistorySends(p) == {i \in 1..Len(log) : log[i].p = p
                                         /\ log[i].phase \in {"first", "history"}}

\* C4: with pin reposting on, whatever a repost delivers of the pins comes
\* before everything it delivers of the ordinary history, the pins come
\* oldest first, and with no call rejected every pinned message has been
\* delivered by the time the first ordinary message is.
C4_PinsFirstOldestFirst ==
    \A p \in Walks :
        LET r == proc[p] IN
        Truthy(config.pins, GuildOf(r.to)) =>
            /\ \A i \in PinBodies(p), j \in HistorySends(p) : i < j
            /\ \A i, j \in PinBodies(p) :
                  i < j => log[i].msg < log[j].msg
            /\ (fails = 0 /\ HistorySends(p) # {}) =>
                  \A m \in Range(FetchPinned(r.from)) :
                      \E i \in PinBodies(p) : log[i].msg = m

\* two pins and then an ordinary message have been delivered
C4_Witness ==
    \E p \in Walks :
        /\ Truthy(config.pins, GuildOf(proc[p].to))
        /\ Cardinality(PinBodies(p)) >= 2
        /\ \E j \in HistorySends(p) : log[j].kind = "body"


(***************************************************************************)
(* replaceAll on a body and again on its output, for the tables that       *)
(* "repost replace <find> <replace>" typed in c1 can have built.           *)
(***************************************************************************)
FindWords == {<<"a">>, <<"b">>, <<"a", "b">>}

ReplaceWords == {<<"a">>, <<"b">>, <<"c">>, <<"a", "a">>, <<"c", "c">>}

Rules == [find : FindWords, replace : ReplaceWords]

\* the tables of at most MaxRules rules, no find pattern twice
Tables ==
    {t \in UNION {[1..k -> Rules] : k \in 0..MaxRules} :
        \A i, j \in DOMAIN t : i # j => t[i].find # t[j].find}

BodiesIn == UNION {[1..k -> {"a", "b"}] : k \in 0..MaxBody}

InitReplace ==
    \E t \in Tables, body \in BodiesIn :
        InitWith([EmptyConfig EXCEPT !.replacements = Put(@, GuildOf("c1"), t)],
                 NoHistory, 1..MaxProcs, <<body>>)

NextReplace == ApplyReplace

SpecReplace == InitReplace /\ [][NextReplace]_vars

\* the table in force in c1
TableC1 ==
    IF GuildOf("c1") \in DOMAIN config.replacements
    THEN config.replacements[GuildOf("c1")] ELSE << >>

\* where pattern pat occurs in str
Occurrences(str, pat) == {i \in 1..Len(str) : MatchAt(str, pat, i)}

\* str contains every find key of the table exactly once, no two of the
\* occurrences sharing a position
EachOnce(table, str) ==
    /\ \A k \in DOMAIN table :
          Cardinality(Occurrences(str, table[k].find)) = 1
    /\ \A k, l \in DOMAIN table :
          k # l =>
             \A i \in Occurrences(str, table[k].find),
                j \in Occurrences(str, table[l].find) :
                 i + Len(table[k].find) <= j \/ j + Len(table[l].find) <= i

\* str with every occurrence of a find key replaced by the replace value of
\* that key, all at once
RECURSIVE Substituted(_, _, _)
Substituted(table, str, i) ==
    IF i > Len(str) THEN << >>
    ELSE IF \E k \in DOMAIN table : MatchAt(str, table[k].find, i)
         THEN LET k == CHOOSE k \in DOMAIN table :
                           MatchAt(str, table[k].find, i)
              IN table[k].replace
                 \o Substituted(table, str, i + Len(table[k].find))
         ELSE <<str[i]>> \o Substituted(table, str, i + 1)

\* no replacement value contains another rule's find pattern
NoCross(table) ==
    \A k, l \in DOMAIN table :
        k # l => ~Contains(table[k].replace, table[l].find)

\* no replacement value has a character in common with any find pattern
Apart(table) ==
    \A k, l \in DOMAIN table :
        Range(table[k].replace) \cap Range(table[l].find) = {}

LiveHook ==
    [EmptyConfig EXCEPT
        !.active = Put(Put(@, "c2", TRUE), "c1", TRUE),
        !.live = Put(@, "c1", [channel |-> "c2", hook |-> TRUE])]

InitHook == InitWith(LiveHook, NoHistory, 1..(MaxProcs + 1), << >>)

NextHook ==
    \/ cmds < MaxCmds /\ \E p \in DOMAIN proc, msg \in PlainMsgs :
                            NewMessage(p, "c1", msg)
    \/ \E p \in DOMAIN proc : LiveResolved(p)
    \/ \E p \in DOMAIN proc, ok \in BOOLEAN : WebhookFetched(p, ok)
    \/ \E p \in DOMAIN proc, ok \in BOOLEAN : NoticeSent(p, ok)
    \/ \E p \in DOMAIN proc, ok \in BOOLEAN : IdentityDone(p, ok)
    \/ \E p \in DOMAIN proc, ok \in BOOLEAN : ItemDone(p, ok)

SpecHook == InitHook /\ [][NextHook]_vars

\* C7: with no call rejected, whenever a body, attachment or embed of a
\* source message is delivered in webhook mode, the destination's webhook
\* bears the name of that message's author at that moment.
C7_WebhookIdentity ==
    fails = 0 =>
        \A i \in Delivered({"body", "file", "url", "embed"}) :
            log[i].under # << >> =>
                log[i].under =
                    replaceAll(log[i].to,
                               niceName(log[i].to, log[i].from,
                                        Msg(log[i].from, log[i].msg).author))


(***************************************************************************)
(* The cursor of the walk.                                                 *)
(***************************************************************************)
\* C11: when a paged fetch is issued, its cursor is at or after every
\* message the walk has replayed, and the bodies of the walk reach the
\* destination in strictly increasing source order.
C11_CursorIsNewest ==
    \A p \in Walks :
        /\ proc[p].pc = "fetch" =>
              \A i \in Sent(p, {"body"}) : log[i].msg <= proc[p].cursor
        /\ \A i, j \in Sent(p, {"body"}) :
              i < j => log[i].msg < log[j].msg


(***************************************************************************)
(* What stop changes.                                                      *)
(***************************************************************************)
\* the entries of a table other than the one of key k are the same in both
SameButFor(before, after, k) ==
    /\ DOMAIN before \ {k} = DOMAIN after \ {k}
    /\ \A x \in DOMAIN before \ {k} : after[x] = before[x]

\* C17: stop typed in channel C leaves neither active[C] nor live[C]
\* behind, and leaves replacements, nicknames, tags, pins, prefixes and the
\* active and live entries of every other channel as they were.
C17_StopFrame ==
    [][(event'.type = "stop" /\ cmds' = cmds + 1) =>
          LET C == event'.chan IN
          /\ C \notin DOMAIN config'.active
          /\ C \notin DOMAIN config'.live
          /\ SameButFor(config.active, config'.active, C)
          /\ SameButFor(config.live, config'.live, C)
          /\ \A k \in {"replacements", "nicknames", "tags", "pins", "prefixes"} :
                config'[k] = config[k]]_vars

\* stop has been typed in c1, the source of a live repost into c2: the rule
\* of c1 and its active flag are gone, the flag of c2 is still there
C17_Witness ==
    /\ event.type = "stop"
    /\ event.chan = "c1"
    /\ \E p \in DOMAIN proc :
          /\ proc[p].pc = "done"
          /\ proc[p].live
          /\ proc[p].from = "c1"
          /\ proc[p].to = "c2"
    /\ "c1" \notin DOMAIN config.live
    /\ "c1" \notin DOMAIN config.active
    /\ "c2" \in DOMAIN config.active


(***************************************************************************)
(* Deliveries and the destination's active flag.                           *)
(***************************************************************************)
\* what a repost sends of the source's messages, and its closing notice
Replayed ==
    {"author", "system", "body", "file", "url", "embed", "complete"}

\* C18: nothing of a repost (author line, system line, body, attachment,
\* embed, "Repost Complete!") is delivered into a channel whose active flag
\* is not set at that moment.
C18_NothingIntoInactive ==
    [][Len(log') > Len(log) =>
          LET e == log'[Len(log')] IN
          e.kind \in Replayed => Truthy(config.active, e.to)]_vars


(***************************************************************************)
(* Rejected sends.                                                         *)
(***************************************************************************)
\* walks with nothing else happening, over messages some of which carry a
\* reaction
SendMsgs ==
    PlainMsgs
    \cup {[Message("A", "Default", <<"a">>, << >>, FALSE)
              EXCEPT !.reactions = 1]}

InitSends ==
    \E h \in Histories(MaxHist, SendMsgs) :
        InitWith(EmptyConfig, SourceOnly(h), 1..MaxProcs, << >>)

NextSends ==
    \/ cmds < 1 /\ WalkCmd(FALSE)
    \/ WalkSteps
    \/ \E p \in DOMAIN proc, ok \in BOOLEAN : ReactDone(p, ok)

SpecSends == InitSends /\ [][NextSends]_vars

\* the messages of the walk's source that have a body, none of which the
\* walk has delivered
Unsent(p) ==
    {m \in 1..Len(history[proc[p].from]) :
        /\ Msg(proc[p].from, m).content # << >>
        /\ Bodies(p, proc[p].from, m) = {}}

\* C19: a walk that nothing but rejected sends disturbed (no stop, no new
\* message, no rejected fetch) runs until a fetch returns nothing, and
\* every rejected send costs at most the one message it was sending: all
\* other messages of the source are delivered.
C19_RejectedSendGoesOn ==
    \A p \in Walks :
        LET r == proc[p] IN
        (r.pc = "done" /\ cmds = 1 /\ ~r.failed) =>
            /\ Cardinality(Unsent(p)) <= fails
            /\ history[r.from] # << >> =>
                  (r.sizes # << >> /\ Last(r.sizes) = 0)

\* the send of a body was rejected and the walk has delivered a later
\* message all the same
C19_Witness ==
    \E p \in Walks :
        /\ proc[p].pc = "done"
        /\ cmds = 1
        /\ fails = 1
        /\ \E m \in Unsent(p) : \E i \in Sent(p, {"body"}) : log[i].msg > m


(***************************************************************************)
(* Two walks, a stop between them.                                         *)
(***************************************************************************)
OneAuthor == {Message("A", "Default", <<"a">>, << >>, FALSE)}

InitRestart ==
    \E h \in Histories(1, OneAuthor) :
        InitWith(EmptyConfig, SourceOnly(h), 1..(MaxProcs + 1), << >>)

NextRestart ==
    \/ cmds < MaxCmds /\ WalkCmd(FALSE)
    \/ cmds < MaxCmds /\ \E c \in Channels : stop(c)
    \/ \E p \in DOMAIN proc : Resolved(p)
    \/ \E p \in DOMAIN proc : Announced(p, TRUE)
    \/ \E p \in DOMAIN proc : InfoSent(p, TRUE)
    \/ \E p \in DOMAIN proc : MessagesHeaderSent(p, TRUE)
    \/ \E p \in DOMAIN proc : FirstFetched(p, TRUE)
    \/ \E p \in DOMAIN proc : Fetched(p, TRUE)
    \/ \E p \in DOMAIN proc : IdentityDone(p, TRUE)
    \/ \E p \in DOMAIN proc : ItemDone(p, TRUE)
    \/ \E p \in DOMAIN proc : CompleteSent(p, TRUE)

SpecRestart == InitRestart /\ [][NextRestart]_vars

\* C12: a walk that was suspended when stop removed the active flag of one
\* of its channels delivers nothing more of the source once that flag has
\* been set again (by a new repost command).
C12_HaltedWalkStaysHalted ==
    [][Len(log') > Len(log) =>
          LET e == log'[Len(log')]
              r == proc[e.p]
          IN e.kind \in Replayed =>
                ~(r.halted # "" /\ Truthy(config.active, r.halted))]_vars


(***************************************************************************)
(* A walk over a source that grows while it is walked: both channels stay  *)
(* active, every call is fulfilled, and every suspended call eventually    *)
(* settles.                                                                *)
(***************************************************************************)
TextMsgs == {Message(a, "Default", <<"a">>, << >>, FALSE) : a \in Users}

InitGrow ==
    \E h \in Histories(MaxHist, TextMsgs) :
        InitWith(EmptyConfig, SourceOnly(h), 1..MaxProcs, << >>)

GrowCmd == cmds < 1 /\ WalkCmd(FALSE)

GrowMessage ==
    /\ cmds < MaxCmds
    /\ \E p \in DOMAIN proc, msg \in TextMsgs : NewMessage(p, "c1", msg)

GrowSteps ==
    \/ \E p \in DOMAIN proc : Resolved(p)
    \/ \E p \in DOMAIN proc : Announced(p, TRUE)
    \/ \E p \in DOMAIN proc : InfoSent(p, TRUE)
    \/ \E p \in DOMAIN proc : MessagesHeaderSent(p, TRUE)
    \/ \E p \in DOMAIN proc : FirstFetched(p, TRUE)
    \/ \E p \in DOMAIN proc : Fetched(p, TRUE)
    \/ \E p \in DOMAIN proc : IdentityDone(p, TRUE)
    \/ \E p \in DOMAIN proc : ItemDone(p, TRUE)
    \/ \E p \in DOMAIN proc : CompleteSent(p, TRUE)

NextGrow == GrowCmd \/ GrowMessage \/ GrowSteps

SpecGrow == InitGrow /\ [][NextGrow]_vars /\ WF_vars(GrowSteps)

\* C14: a walk that has been started delivers "Repost Complete!" in the
\* end, and every paged fetch it issues has its cursor strictly after the
\* cursor of the one before.
C14_WalkEnds ==
    /\ \A p \in 1..MaxProcs :
          (p \in DOMAIN proc /\ proc[p].kind = "walk")
              ~> (Sent(p, {"complete"}) # {})
    /\ [][\A p \in DOMAIN proc :
             proc'[p].fetches > proc[p].fetches =>
                 proc'[p].cursor > proc[p].cursor]_vars

\* the walk has ended with its notice after delivering a message that was
\* posted in the source after the command
C14_Witness ==
    \E p \in Walks :
        /\ Sent(p, {"complete"}) # {}
        /\ event.type = "message"
        /\ Bodies(p, "c1", Len(history["c1"])) # {}


(***************************************************************************)
(* Live forwarding in both directions.  run calls repostLive for every     *)
(* message event before it looks at the author (lines 709-711), and the    *)
(* platform raises a message event for the bot's own posts too.            *)
(***************************************************************************)
Bot == "bot"

\* what the bot has posted in channel c, in order
Posted(c) == SelectSeq(log, LAMBDA e : e.to = c /\ e.kind \notin {"react", "rename"})

\* the posts of the bot in c whose message event has been handled
Echoed(c) == SelectSeq(history[c], LAMBDA m : m.author = Bot)

\* the message event of the bot's next post in c
Echo(p, c) ==
    /\ Len(Echoed(c)) < Len(Posted(c))
    /\ NewMessage(p, c, Message(Bot, "Default",
                                Posted(c)[Len(Echoed(c)) + 1].text,
                                << >>, FALSE))

\* the state "repostlive from c1" typed in c2 and "repostlive from c2"
\* typed in c1 leave behind
LiveBoth ==
    [EmptyConfig EXCEPT
        !.active = Put(Put(@, "c2", TRUE), "c1", TRUE),
        !.live = Put(Put(@, "c1", [channel |-> "c2", hook |-> FALSE]),
                     "c2", [channel |-> "c1", hook |-> FALSE])]

InitLoop == InitWith(LiveBoth, NoHistory, 1..(MaxProcs + 2), << >>)

NextLoop ==
    \/ cmds < 1 /\ \E p \in DOMAIN proc, c \in Channels, msg \in PlainMsgs :
                      NewMessage(p, c, msg)
    \/ \E p \in DOMAIN proc, c \in Channels : Echo(p, c)
    \/ \E p \in DOMAIN proc : LiveResolved(p)
    \/ \E p \in DOMAIN proc, ok \in BOOLEAN : IdentityDone(p, ok)
    \/ \E p \in DOMAIN proc, ok \in BOOLEAN : ItemDone(p, ok)

SpecLoop == InitLoop /\ [][NextLoop]_vars

\* C13: what live forwarding delivers is never a copy of one of the bot's
\* own posts; with two channels such a copy goes back into the channel the
\* original came from, where it is forwarded again.
C13_OwnPostsNotForwarded ==
    \A i \in 1..Len(log) :
        log[i].phase = "live" => Msg(log[i].from, log[i].msg).author # Bot


(***************************************************************************)
(* Reposts whose target is resolved along every path of lines 482-549: a   *)
(* channel identifier, a guild identifier, a mention, a name borne by one  *)
(* channel, by two, or by none.                                            *)
(***************************************************************************)
Targets == {"c2", "g2", "<#c1>", "two", "dup", "none"}

InitGuild ==
    \E h \in Histories(1, OneAuthor) :
        InitWith(EmptyConfig,
                 [c \in AllChannels |-> IF c = "c1" THEN h ELSE << >>],
                 1..MaxProcs, << >>)

\* one repost command, typed in one of the two channels
GuildCmd ==
    \E p \in DOMAIN proc, chan \in Channels, id \in Targets,
       direction \in BOOLEAN, live \in BOOLEAN :
        RepostCmd(p, chan, id, FALSE, direction, live)

\* the loop of line 492 goes on in the turn in which line 497 returned
Returned == \E p \in DOMAIN proc : proc[p].pc = "guildNext"

NextGuild ==
    \/ \E p \in DOMAIN proc : GuildNext(p)
    \/ ~Returned /\ cmds < 1 /\ GuildCmd
    \/ ~Returned /\ cmds < MaxCmds /\ \E c \in Channels : stop(c)
    \/ ~Returned /\ cmds < MaxCmds /\ \E p \in DOMAIN proc : Picked(p)
    \/ ~Returned /\ \E p \in DOMAIN proc : Resolved(p)
    \/ ~Returned /\ \E p \in DOMAIN proc : GuildFetched(p)
    \/ ~Returned /\ \E p \in DOMAIN proc : GuildAnnounced(p, TRUE)
    \/ ~Returned /\ \E p \in DOMAIN proc : ListingSent(p, TRUE)
    \/ ~Returned /\ \E p \in DOMAIN proc : NoticeSent(p, TRUE)
    \/ ~Returned /\ \E p \in DOMAIN proc : Announced(p, TRUE)
    \/ ~Returned /\ \E p \in DOMAIN proc : InfoSent(p, TRUE)
    \/ ~Returned /\ \E p \in DOMAIN proc : MessagesHeaderSent(p, TRUE)
    \/ ~Returned /\ \E p \in DOMAIN proc : FirstFetched(p, TRUE)
    \/ ~Returned /\ \E p \in DOMAIN proc : Fetched(p, TRUE)
    \/ ~Returned /\ \E p \in DOMAIN proc : IdentityDone(p, TRUE)
    \/ ~Returned /\ \E p \in DOMAIN proc : ItemDone(p, TRUE)
    \/ ~Returned /\ \E p \in DOMAIN proc : CompleteSent(p, TRUE)

SpecGuild == InitGuild /\ [][NextGuild]_vars

\* C15: no repost has one channel as source and destination: no live rule
\* maps a channel to itself, no walk has its source as destination, and
\* nothing of a channel is delivered into that channel, whether the target
\* was given by identifier, through its guild, by mention or by name.
C15_NoSelfRepost ==
    /\ \A c \in DOMAIN config.live : config.live[c].channel # c
    /\ \A p \in DOMAIN proc : proc[p].to # "" => proc[p].to # proc[p].from
    /\ \A i \in 1..Len(log) :
          log[i].kind \in Replayed \cup {"info"} => log[i].to # log[i].from

\* a guild repost has come to the invoking channel itself and the guard of
\* line 550 has turned it down
C15_Witness ==
    \E p \in DOMAIN proc :
        /\ proc[p].pc = "rejected"
        /\ proc[p].gid # ""
        /\ proc[p].id = proc[p].chan

\* C16: the step in which a guard clause rejects the target channel changes
\* neither the configuration nor the file, also when the channel was reached
\* through its guild.
C16_RejectedChangesNothing ==
    [][\A p \in DOMAIN proc :
          (proc'[p].pc = "rejected" /\ proc[p].pc # "rejected"
           /\ proc'[p].id \in AllChannels)
              => (config' = config /\ disk' = disk)]_vars

(***************************************************************************)
(* A guild repost typed in c1, stop commands, and a second repost typed in *)
(* c1 while the first is under way.                                        *)
(***************************************************************************)
InitExpand ==
    InitWith(EmptyConfig, [c \in AllChannels |-> << >>],
             1..(MaxProcs + 1), << >>)

\* "repost to <guild>" or "repost from <guild>" typed in c1
ExpandCmd ==
    \E p \in DOMAIN proc, direction \in BOOLEAN :
        RepostCmd(p, "c1", "g2", FALSE, direction, FALSE)

\* "repost to c2" typed in c1
AgainCmd == \E p \in DOMAIN proc : RepostCmd(p, "c1", "c2", FALSE, FALSE, FALSE)

NextExpand ==
    \/ \E p \in DOMAIN proc : GuildNext(p)
    \/ ~Returned /\ cmds < 1 /\ ExpandCmd
    \/ ~Returned /\ cmds < MaxCmds /\ AgainCmd
    \/ ~Returned /\ cmds < MaxCmds /\ \E c \in Channels : stop(c)
    \/ ~Returned /\ \E p \in DOMAIN proc : Resolved(p)
    \/ ~Returned /\ \E p \in DOMAIN proc : GuildFetched(p)
    \/ ~Returned /\ \E p \in DOMAIN proc : GuildAnnounced(p, TRUE)
    \/ ~Returned /\ \E p \in DOMAIN proc : NoticeSent(p, TRUE)
    \/ ~Returned /\ \E p \in DOMAIN proc : Announced(p, TRUE)
    \/ ~Returned /\ \E p \in DOMAIN proc : InfoSent(p, TRUE)
    \/ ~Returned /\ \E p \in DOMAIN proc : MessagesHeaderSent(p, TRUE)
    \/ ~Returned /\ \E p \in DOMAIN proc : FirstFetched(p, TRUE)
    \/ ~Returned /\ \E p \in DOMAIN proc : CompleteSent(p, TRUE)

SpecExpand == InitExpand /\ [][NextExpand]_vars

\* C20: a guild repost whose invoking channel stop has deactivated takes no
\* further turn of its loop: it marks no remaining channel of the guild
\* active and starts no repost of one.
C20_StopEndsExpansion ==
    [][\A p \in DOMAIN proc :
          (proc[p].gid # "" /\ Len(proc'[p].rest) < Len(proc[p].rest))
              => proc[p].halted # proc[p].chan]_vars

(***************************************************************************)
(* stop against the configurations that reposts and stops produce: any     *)
(* channels active, live rules from active channels to the other channel,  *)
(* one guild with a prefix and one with pins on.                           *)
(***************************************************************************)
Other(c) == IF c = "c1" THEN "c2" ELSE "c1"

StopConfigs ==
    UNION {{[EmptyConfig EXCEPT !.active = [c \in a |-> TRUE],
                                !.live = [c \in l |-> [channel |-> Other(c),
                                                       hook |-> h]],
                                !.prefixes = [g \in {"g1"} |-> <<"!">>],
                                !.pins = [g \in {"g2"} |-> TRUE]] :
               l \in SUBSET a, h \in BOOLEAN} : a \in SUBSET Channels}

InitStop ==
    \E cfg \in StopConfigs : InitWith(cfg, NoHistory, 1..MaxProcs, << >>)

NextStop ==
    \/ cmds < MaxCmds /\ \E c \in Channels : stop(c)
    \/ cmds < MaxCmds /\ \E p \in DOMAIN proc, chan \in Channels,
                            id \in Channels, webhook \in BOOLEAN,
                            direction \in BOOLEAN :
                            RepostCmd(p, chan, id, webhook, direction, TRUE)
    \/ \E p \in DOMAIN proc : Resolved(p)
    \/ \E p \in DOMAIN proc, ok \in BOOLEAN : Announced(p, ok)
    \/ \E p \in DOMAIN proc, ok \in BOOLEAN : NoticeSent(p, ok)

SpecStop == InitStop /\ [][NextStop]_vars
=============================================================================
